---- MODULE Spec2Model ----
(***************************************************************************)
(* A model of the link reader plugin (src/main.py): the site classifier,   *)
(* the lyrics normaliser, the generic text normaliser, the music resolver  *)
(* cascade, the rendered page fetcher, the entry point, two calls of it in *)
(* flight together, and the request hook.                                  *)
(*                                                                         *)
(* A Python str is a sequence of characters.  A character is a one-token   *)
(* string: an ASCII character stands for itself, "LF" "CR" "TAB" "BSL" are *)
(* line feed, carriage return, tab and backslash, and "uXXXX" is the code  *)
(* point U+XXXX.                                                           *)
(***************************************************************************)
EXTENDS Integers, Sequences, FiniteSets, TLC

VARIABLES
    raw,        \* the argument of the pure function under check
    out1,       \* its result
    out2,       \* the result of applying it to out1
    stage,      \* "in", "once", "twice"
    max_length,     \* self.max_length (main.py:33)
    HAS_PLAYWRIGHT, \* the module constant of main.py:13-17
    pc,             \* where the current call of _fetch_url_content stands
    url,            \* its argument
    final_url,      \* final_url of _handle_music_direct_api
    provider,       \* the provider branch taken: "netease", "qq", "kuwo", "none"
    song_id,        \* the identifier extracted for it
    payload,        \* the lyric payload the direct tier obtained (lrc / lrc_list)
    fb_url,         \* the argument of _fallback_xiaojiang_search
    keyword,        \* final_keyword
    events,         \* the external steps of the call, in order
    html,           \* what _get_screenshot_and_content returned as html
    content,        \* the text returned by _fetch_url_content
    screenshot,     \* the screenshot returned with it
    raised,         \* an exception left _fetch_url_content
    browser,        \* the browser of the current call: "none", "open", "closed"
    open_browsers,  \* browsers launched and not released, over all calls
    ncalls,         \* calls started so far
    lyrics_found,   \* what _search_xiaojiang returned (main.py:226)
    answers,        \* what the network and the browser answered to the call
    other,          \* the frame of the other call in flight, suspended
    enable_plugin,  \* self.enable_plugin (main.py:32)
    urls,           \* what url_pattern.findall gave for the event (main.py:310)
    prompt,         \* req.prompt
    hpc             \* where on_llm_request stands: "idle", "fetching", "returned"

pureVars == <<raw, out1, out2, stage>>
confVars == <<max_length, HAS_PLAYWRIGHT>>
callVars == <<pc, url, final_url, provider, song_id, payload, fb_url, keyword,
              events, html, content, screenshot, raised, browser,
              open_browsers, ncalls, lyrics_found, answers, other>>
hookVars == <<enable_plugin, urls, prompt, hpc>>
vars == <<raw, out1, out2, stage, max_length, HAS_PLAYWRIGHT, pc, url,
          final_url, provider, song_id, payload, fb_url, keyword, events,
          html, content, screenshot, raised, browser, open_browsers, ncalls,
          lyrics_found, answers, other, enable_plugin, urls, prompt, hpc>>

\* None
None == "None"

\* the local variables of a call that has not started: every variable of
\* _fetch_url_content and of the functions it calls is a local of the
\* coroutine (main.py:131-304)
IdleFrame ==
    [pc |-> "idle", url |-> <<>>, final_url |-> <<>>, provider |-> "none",
     song_id |-> <<>>, payload |-> None, fb_url |-> None, keyword |-> None,
     events |-> <<>>, html |-> None, content |-> None, screenshot |-> None,
     raised |-> FALSE, browser |-> "none", lyrics_found |-> None,
     answers |-> <<>>]

\* req.prompt as the event brings it: "hi?"
BasePrompt == <<"h", "i", "?">>

\* no event is being handled
HookIdle ==
    /\ enable_plugin = TRUE
    /\ urls = <<>>
    /\ prompt = BasePrompt
    /\ hpc = "idle"

\* no call is in progress and none was made
CallIdle ==
    /\ pc = "idle"
    /\ url = <<>>
    /\ final_url = <<>>
    /\ provider = "none"
    /\ song_id = <<>>
    /\ payload = None
    /\ fb_url = None
    /\ keyword = None
    /\ events = <<>>
    /\ html = None
    /\ content = None
    /\ screenshot = None
    /\ raised = FALSE
    /\ browser = "none"
    /\ open_browsers = 0
    /\ ncalls = 0
    /\ lyrics_found = None
    /\ answers = <<>>
    /\ other = IdleFrame

-----------------------------------------------------------------------------
(* Characters *)

Digits == {"0", "1", "2", "3", "4", "5", "6", "7", "8", "9"}

\* str.strip() removes these (the Unicode whitespace the model uses)
Whitespace == {" ", "TAB", "CR", "LF", "u3000"}

\* The characters of the model that lie in U+4E00..U+9FFF
CJK == {"u4F60", "u597D", "u4F5C", "u8BCD", "u5F20", "u4E09", "u6B4C",
        "u6587", "u672C", "u6CAA", "u5907", "u516C", "u7F51", "u5B89",
        "u7ECF", "u8425", "u8BB8", "u53EF", "u8BC1", "u7248", "u6743",
        "u6240", "u6709", "u4E0B", "u8F7D", "u6253", "u5F00", "u5185",
        "u5BB9", "u8FC7", "u957F", "u5DF2", "u622A", "u65AD", "u6613",
        "u4E91", "u89E3", "u6790", "u7FFB", "u8BD1", "u97F3", "u4E50",
        "u9177", "u6211", "u6765", "u6E90", "u5C0F", "u6C5F", "u8BC6",
        "u522B", "u5230", "u94FE", "u63A5", "u4F46", "u5728", "u641C",
        "u7D22", "u65F6", "u672A", "u80FD", "u5339", "u914D", "u6B63",
        "u5931", "u8D25", "u9875", "u51FA", "u9519", "u77E5", "u66F2",
        "u53F7", "u4E16", "u754C"}

-----------------------------------------------------------------------------
(* Python str operations *)

\* sub in s
Contains(s, sub) ==
    \E i \in 1..(Len(s) - Len(sub) + 1) : SubSeq(s, i, i + Len(sub) - 1) = sub

\* s.startswith(p) at offset i (1-based)
MatchesAt(s, i, p) ==
    /\ i + Len(p) - 1 <= Len(s)
    /\ SubSeq(s, i, i + Len(p) - 1) = p

RECURSIVE ReplaceFrom(_, _, _, _)
ReplaceFrom(s, i, pat, rep) ==
    IF i > Len(s) THEN <<>>
    ELSE IF MatchesAt(s, i, pat)
         THEN rep \o ReplaceFrom(s, i + Len(pat), pat, rep)
         ELSE <<s[i]>> \o ReplaceFrom(s, i + 1, pat, rep)

\* s.replace(pat, rep), pat non-empty: leftmost, non-overlapping
Replace(s, pat, rep) == ReplaceFrom(s, 1, pat, rep)

RECURSIVE SplitFrom(_, _, _, _)
SplitFrom(s, c, i, cur) ==
    IF i > Len(s) THEN <<cur>>
    ELSE IF s[i] = c
         THEN <<cur>> \o SplitFrom(s, c, i + 1, <<>>)
         ELSE SplitFrom(s, c, i + 1, Append(cur, s[i]))

\* s.split(c) for a one-character separator
Split(s, c) == SplitFrom(s, c, 1, <<>>)

RECURSIVE LStrip(_)
LStrip(s) ==
    IF s # <<>> /\ s[1] \in Whitespace THEN LStrip(Tail(s)) ELSE s

RECURSIVE RStrip(_)
RStrip(s) ==
    IF s # <<>> /\ s[Len(s)] \in Whitespace
    THEN RStrip(SubSeq(s, 1, Len(s) - 1))
    ELSE s

\* s.strip()
Strip(s) == RStrip(LStrip(s))

RECURSIVE Join(_, _)
\* sep.join(lines)
Join(lines, sep) ==
    IF lines = <<>> THEN <<>>
    ELSE IF Len(lines) = 1 THEN lines[1]
    ELSE lines[1] \o sep \o Join(Tail(lines), sep)

RECURSIVE Flatten(_)
\* the concatenation of a sequence of sequences
Flatten(ss) == IF ss = <<>> THEN <<>> ELSE ss[1] \o Flatten(Tail(ss))

\* s.isdigit()
IsDigitStr(s) == s # <<>> /\ \A i \in 1..Len(s) : s[i] \in Digits

\* the end of the longest run of digits starting at i (i - 1 when there is none)
RECURSIVE DigitsEnd(_, _)
DigitsEnd(s, i) ==
    IF i <= Len(s) /\ s[i] \in Digits THEN DigitsEnd(s, i + 1) ELSE i - 1

-----------------------------------------------------------------------------
(* _contains_chinese, _filter_lyrics (main.py:82-114) *)

_contains_chinese(text) == \E i \in 1..Len(text) : text[i] \in CJK

\* The end of a match of \[\d+:\d+\.\d+\] starting at i, or 0
TimestampEnd(s, i) ==
    IF ~(i <= Len(s) /\ s[i] = "[") THEN 0
    ELSE LET a == DigitsEnd(s, i + 1) IN
         IF a < i + 1 \/ ~(a + 1 <= Len(s) /\ s[a + 1] = ":") THEN 0
         ELSE LET b == DigitsEnd(s, a + 2) IN
              IF b < a + 2 \/ ~(b + 1 <= Len(s) /\ s[b + 1] = ".") THEN 0
              ELSE LET c == DigitsEnd(s, b + 2) IN
                   IF c < b + 2 \/ ~(c + 1 <= Len(s) /\ s[c + 1] = "]") THEN 0
                   ELSE c + 1

RECURSIVE StripTimestampsFrom(_, _)
StripTimestampsFrom(s, i) ==
    IF i > Len(s) THEN <<>>
    ELSE IF TimestampEnd(s, i) > 0
         THEN StripTimestampsFrom(s, TimestampEnd(s, i) + 1)
         ELSE <<s[i]>> \o StripTimestampsFrom(s, i + 1)

\* re.sub(r'\[\d+:\d+\.\d+\]', '', line): one left-to-right pass
StripTimestamps(s) == StripTimestampsFrom(s, 1)

LyricKeywords ==
    { <<"u6B4C", "u8BCD">>, <<"L", "y", "r", "i", "c">>, <<"L", "R", "C">>,
      <<"u6587", "u672C">> }

MetadataLenLimit == 35
FragmentLenLimit == 20

\* main.py:101 without the full-width colon
LooksLikeMetadataAsciiColon(line) ==
    \/ /\ Contains(line, <<":">>)
       /\ Len(line) < MetadataLenLimit
    \/ Contains(line, <<" ", "-", " ">>)

\* main.py:101: the line looks like a credit or "artist - title" line
LooksLikeMetadata(line) ==
    \/ /\ (Contains(line, <<":">>) \/ Contains(line, <<"uFF1A">>))
       /\ Len(line) < MetadataLenLimit
    \/ Contains(line, <<" ", "-", " ">>)

\* main.py:102
HasLyricKeyword(line) == \E kw \in LyricKeywords : Contains(line, kw)

NonEmpty(s) == s # <<>>

\* main.py:106
SpaceParts(line) ==
    LET pieces == Split(line, " ")
        stripped == [k \in 1..Len(pieces) |-> Strip(pieces[k])]
    IN  SelectSeq(stripped, NonEmpty)

\* main.py:96-111: what one input line adds to filtered_lines
FilterLine(line0) ==
    LET l1 == Strip(line0) IN
    IF l1 = <<>> THEN <<>>
    ELSE LET line == Strip(StripTimestamps(l1)) IN
         IF line = <<>> \/ (line[1] = "[" /\ line[Len(line)] = "]") THEN <<>>
         ELSE IF LooksLikeMetadata(line) /\ ~HasLyricKeyword(line) THEN <<>>
         ELSE IF Contains(line, <<" ">>) /\ _contains_chinese(line)
                 /\ \A k \in 1..Len(SpaceParts(line)) :
                        Len(SpaceParts(line)[k]) < FragmentLenLimit
              THEN SpaceParts(line)
              ELSE <<line>>

\* main.py:113
KeepFinal(l) == Len(l) > 1 /\ ~IsDigitStr(l)

_filter_lyrics(lyrics) ==
    IF lyrics = <<>> THEN <<>>
    ELSE LET text == Replace(Replace(lyrics, <<"BSL", "n">>, <<"LF">>),
                             <<"BSL", "r">>, <<>>)
             lines == Split(text, "LF")
             filtered_lines ==
                 Flatten([k \in 1..Len(lines) |-> FilterLine(lines[k])])
         IN  Join(SelectSeq(filtered_lines, KeepFinal), <<"LF">>)

-----------------------------------------------------------------------------
(* _clean_text (main.py:116-129) *)

blacklist ==
    { <<"u6CAA", "I", "C", "P", "u5907">>,
      <<"u516C", "u7F51", "u5B89", "u5907">>,
      <<"u7ECF", "u8425", "u8BB8", "u53EF", "u8BC1">>,
      <<"u7248", "u6743", "u6240", "u6709">>,
      <<"u00A9">>,
      <<"C", "o", "p", "y", "r", "i", "g", "h", "t">>,
      <<"u4E0B", "u8F7D", "A", "P", "P">>,
      <<"u6253", "u5F00", "A", "P", "P">> }

\* "...(" + 7 CJK characters + ")"
TruncationMarker ==
    <<".", ".", ".", "(", "u5185", "u5BB9", "u8FC7", "u957F", "u5DF2",
      "u622A", "u65AD", ")">>

\* main.py:123 dropping only a line that is a blacklist keyword and no more
KeepCleanLineExact(line) ==
    ~(line = <<>> \/ Len(line) < 2 \/ line \in blacklist)

\* main.py:122-125: the stripped line is kept
KeepCleanLine(line) ==
    ~(line = <<>> \/ Len(line) < 2 \/ \E kw \in blacklist : Contains(line, kw))

\* main.py:118-126: result before truncation
CleanJoined(text) ==
    LET lines == Split(text, "LF")
        stripped == [k \in 1..Len(lines) |-> Strip(lines[k])]
    IN  Join(SelectSeq(stripped, KeepCleanLine), <<"LF">>)

\* main.py:127-128 cutting one character late
TruncateOneLate(result, n) ==
    IF Len(result) > n
    THEN SubSeq(result, 1, n + 1) \o TruncationMarker
    ELSE result

\* main.py:127: result[:n] for n >= 0
Truncate(result, n) ==
    IF Len(result) > n
    THEN SubSeq(result, 1, n) \o TruncationMarker
    ELSE result

_clean_text(text, maxLen) == Truncate(CleanJoined(text), maxLen)

-----------------------------------------------------------------------------
(* The site classifier: _is_music_site (main.py:66-80) and the routing      *)
(* conditions of _fetch_url_content (main.py:283-288)                       *)

music_domains ==
    { <<"m", "u", "s", "i", "c", ".", "1", "6", "3", ".", "c", "o", "m">>,
      <<"1", "6", "3", "c", "n", ".", "t", "v">>,
      <<"1", "6", "3", ".", "f", "m">>,
      <<"y", ".", "m", "u", "s", "i", "c", ".", "1", "6", "3", ".", "c", "o", "m">>,
      <<"y", ".", "q", "q", ".", "c", "o", "m">>,
      <<"c", "6", ".", "y", ".", "q", "q", ".", "c", "o", "m">>,
      <<"c", ".", "y", ".", "q", "q", ".", "c", "o", "m">>,
      <<"u", ".", "y", ".", "q", "q", ".", "c", "o", "m">>,
      <<"u", "r", "l", ".", "c", "n">>,
      <<"k", "u", "g", "o", "u", ".", "c", "o", "m">>,
      <<"t", ".", "k", "u", "g", "o", "u", ".", "c", "o", "m">>,
      <<"f", "a", "n", "x", "i", "n", "g", ".", "k", "u", "g", "o", "u", ".", "c", "o", "m">>,
      <<"k", "u", "w", "o", ".", "c", "n">>,
      <<"t", ".", "k", "u", "w", "o", ".", "c", "n">>,
      <<"m", "i", "g", "u", ".", "c", "n">>,
      <<"b", "2", "3", ".", "t", "v">> }

\* any(domain in url for domain in music_domains): a substring test on the
\* whole URL, letter case as given
_is_music_site(u) == \E domain \in music_domains : Contains(u, domain)

social_platforms ==
    { <<"x", "i", "a", "o", "h", "o", "n", "g", "s", "h", "u", ".", "c", "o", "m">>,
      <<"z", "h", "i", "h", "u", ".", "c", "o", "m">>,
      <<"w", "e", "i", "b", "o", ".", "c", "o", "m">>,
      <<"b", "i", "l", "i", "b", "i", "l", "i", ".", "c", "o", "m">>,
      <<"d", "o", "u", "y", "i", "n", ".", "c", "o", "m">>,
      <<"l", "o", "f", "t", "e", "r", ".", "c", "o", "m">> }

\* the first index >= i of s holding a character of cs, or Len(s) + 1
RECURSIVE FirstOf(_, _, _)
FirstOf(s, i, cs) ==
    IF i > Len(s) \/ s[i] \in cs THEN i ELSE FirstOf(s, i + 1, cs)

\* the first index >= i where pat starts in s, or 0
RECURSIVE Find(_, _, _)
Find(s, i, pat) ==
    IF i + Len(pat) - 1 > Len(s) THEN 0
    ELSE IF MatchesAt(s, i, pat) THEN i ELSE Find(s, i + 1, pat)

\* urlparse(url).netloc for a URL "scheme://netloc[/path][?query][#fragment]"
Netloc(u) ==
    LET p == Find(u, 1, <<":", "/", "/">>) IN
    IF p = 0 THEN <<>>
    ELSE SubSeq(u, p + 3, FirstOf(u, p + 3, {"/", "?", "#"}) - 1)

\* main.py:288, the part that reads the URL
IsSocialHost(u) == \E sp \in social_platforms : Contains(Netloc(u), sp)

\* main.py:283-288 with the social test ahead of the music test
SiteKindSocialFirst(u, hasRenderer) ==
    IF IsSocialHost(u) /\ hasRenderer THEN "SocialRendered"
    ELSE IF _is_music_site(u) THEN "Music"
    ELSE "Generic"

\* The branch _fetch_url_content takes (main.py:283, 288, 296)
SiteKind(u, hasRenderer) ==
    IF _is_music_site(u) THEN "Music"
    ELSE IF IsSocialHost(u) /\ hasRenderer THEN "SocialRendered"
    ELSE "Generic"

-----------------------------------------------------------------------------
(* Bounded inputs *)

MaxRawLen == 4
MaxMaxLength == 3

BoundedSeq(S, n) == UNION {[1..k -> S] : k \in 0..n}

LyricAlphabet == {" ", ":", "[", "]", "a", "u4F60"}

\* "[00:12.34]" U+4F60 U+597D / U+4F5C U+8BCD U+FF1A U+5F20 U+4E09 / "Hello"
\* (spec.md section 8)
LyricExample ==
    <<"[", "0", "0", ":", "1", "2", ".", "3", "4", "]", "u4F60", "u597D", "LF",
      "u4F5C", "u8BCD", "uFF1A", "u5F20", "u4E09", "LF",
      "H", "e", "l", "l", "o">>

LyricInputs == BoundedSeq(LyricAlphabet, MaxRawLen) \cup {LyricExample}

CleanAlphabet == {"LF", " ", "a", "b", "u00A9"}

\* U+6CAA "ICP" U+5907 "12345678" U+53F7: an ICP registration line
IcpLine ==
    <<"u6CAA", "I", "C", "P", "u5907", "1", "2", "3", "4", "5", "6", "7", "8",
      "u53F7">>

\* "ab" / the ICP line / "cd" / "x" / "  ef  "
CleanExample ==
    <<"a", "b", "LF">> \o IcpLine \o
    <<"LF", "c", "d", "LF", "x", "LF", " ", " ", "e", "f", " ", " ">>

CleanInputs == BoundedSeq(CleanAlphabet, MaxRawLen) \cup {CleanExample}

LowerLetters ==
    <<"a", "b", "c", "d", "e", "f", "g", "h", "i", "j", "k", "l", "m", "n",
      "o", "p", "q", "r", "s", "t", "u", "v", "w", "x", "y", "z">>
UpperLetters ==
    <<"A", "B", "C", "D", "E", "F", "G", "H", "I", "J", "K", "L", "M", "N",
      "O", "P", "Q", "R", "S", "T", "U", "V", "W", "X", "Y", "Z">>

UpperChar(c) ==
    IF \E k \in 1..26 : LowerLetters[k] = c
    THEN UpperLetters[CHOOSE k \in 1..26 : LowerLetters[k] = c]
    ELSE c
LowerChar(c) ==
    IF \E k \in 1..26 : UpperLetters[k] = c
    THEN LowerLetters[CHOOSE k \in 1..26 : UpperLetters[k] = c]
    ELSE c

Upper(s) == [k \in 1..Len(s) |-> UpperChar(s[k])]
Lower(s) == [k \in 1..Len(s) |-> LowerChar(s[k])]
\* first letter upper case, the rest as given
Capitalised(s) == [k \in 1..Len(s) |-> IF k = 1 THEN UpperChar(s[k]) ELSE s[k]]

HostCases(h) == {h, Upper(h), Capitalised(h)}

OtherHosts ==
    { <<"e", "x", "a", "m", "p", "l", "e", ".", "c", "o", "m">>,
      <<"w", "w", "w", ".", "z", "h", "i", "h", "u", ".", "c", "o", "m">>,
      <<"w", "e", "i", "b", "o", ".", "c", "o", "m">> }

Schemes == { <<"h", "t", "t", "p", "s", ":", "/", "/">>,
             <<"h", "t", "t", "p", ":", "/", "/">> }
Paths == { <<>>, <<"/">>, <<"/", "s", "o", "n", "g">> }
Queries ==
    { <<>>, <<"?", "i", "d", "=", "1", "2">>,
      <<"?", "u", "=", "m", "u", "s", "i", "c", ".", "1", "6", "3", ".", "c", "o", "m">> }

ClassifierInputs ==
    { sc \o h \o p \o q :
        sc \in Schemes,
        h \in UNION {HostCases(d) : d \in music_domains \cup OtherHosts},
        p \in Paths, q \in Queries }

-----------------------------------------------------------------------------
(* The lyrics normaliser applied once and twice *)

InitLyrics ==
    /\ raw \in LyricInputs
    /\ out1 = <<>>
    /\ out2 = <<>>
    /\ stage = "in"
    /\ max_length = 0
    /\ HAS_PLAYWRIGHT = FALSE
    /\ CallIdle
    /\ HookIdle

FilterOnce ==
    /\ stage = "in"
    /\ out1' = _filter_lyrics(raw)
    /\ stage' = "once"
    /\ UNCHANGED <<raw, out2, confVars, callVars, hookVars>>

FilterTwice ==
    /\ stage = "once"
    /\ out2' = _filter_lyrics(out1)
    /\ stage' = "twice"
    /\ UNCHANGED <<raw, out1, confVars, callVars, hookVars>>

NextLyrics == FilterOnce \/ FilterTwice

SpecLyrics == InitLyrics /\ [][NextLyrics]_vars

-----------------------------------------------------------------------------
(* The generic text normaliser applied to bounded texts *)

\* the default of max_content_length (main.py:33)
DefaultMaxLength == 2000

InitClean ==
    /\ raw \in CleanInputs
    /\ out1 = <<>>
    /\ out2 = <<>>
    /\ stage = "in"
    /\ max_length \in (0..MaxMaxLength) \cup {DefaultMaxLength}
    /\ HAS_PLAYWRIGHT = FALSE
    /\ CallIdle
    /\ HookIdle

CleanOnce ==
    /\ stage = "in"
    /\ out1' = _clean_text(raw, max_length)
    /\ stage' = "once"
    /\ UNCHANGED <<raw, out2, confVars, callVars, hookVars>>

NextClean == CleanOnce

SpecClean == InitClean /\ [][NextClean]_vars

-----------------------------------------------------------------------------
(* The classifier applied to URLs built from scheme, host, path and query *)

InitClassify ==
    /\ raw \in ClassifierInputs
    /\ out1 = "none"
    /\ out2 = <<>>
    /\ stage = "in"
    /\ max_length = 0
    /\ HAS_PLAYWRIGHT \in BOOLEAN
    /\ CallIdle
    /\ HookIdle

ClassifyOnce ==
    /\ stage = "in"
    /\ out1' = SiteKind(raw, HAS_PLAYWRIGHT)
    /\ stage' = "once"
    /\ UNCHANGED <<raw, out2, confVars, callVars, hookVars>>

NextClassify == ClassifyOnce

SpecClassify == InitClassify /\ [][NextClassify]_vars

-----------------------------------------------------------------------------
(* The music resolver: _handle_music_direct_api (main.py:131-198),           *)
(* _fallback_xiaojiang_search (main.py:200-232), _search_xiaojiang           *)
(* (main.py:234-261)                                                         *)

short_link_domains ==
    { <<"1", "6", "3", "c", "n", ".", "t", "v">>,
      <<"1", "6", "3", ".", "f", "m">>,
      <<"u", "r", "l", ".", "c", "n">>,
      <<"c", "6", ".", "y", ".", "q", "q", ".", "c", "o", "m">>,
      <<"u", ".", "y", ".", "q", "q", ".", "c", "o", "m">>,
      <<"t", ".", "k", "u", "g", "o", "u", ".", "c", "o", "m">>,
      <<"t", ".", "k", "u", "w", "o", ".", "c", "n">>,
      <<"b", "2", "3", ".", "t", "v">> }

\* main.py:141
NeedsRedirect(u) ==
    \/ \E domain \in short_link_domains : Contains(u, domain)
    \/ Contains(u, <<"b", "a", "s", "e", "/", "f", "c", "g", "i", "-", "b",
                     "i", "n", "/", "u">>)

AlphaNum ==
    Digits \cup {LowerLetters[k] : k \in 1..26} \cup {UpperLetters[k] : k \in 1..26}

\* the end of the longest run of characters of cls starting at i
RECURSIVE RunEnd(_, _, _)
RunEnd(s, i, cls) ==
    IF i <= Len(s) /\ s[i] \in cls THEN RunEnd(s, i + 1, cls) ELSE i - 1

\* re.search(prefix + '(' + cls + '+)', s): group 1 of the leftmost match
\* from i on, or <<>> when there is no match
RECURSIVE SearchGroup(_, _, _, _)
SearchGroup(s, i, prefix, cls) ==
    IF i + Len(prefix) > Len(s) THEN <<>>
    ELSE IF MatchesAt(s, i, prefix) /\ s[i + Len(prefix)] \in cls
         THEN SubSeq(s, i + Len(prefix), RunEnd(s, i + Len(prefix), cls))
         ELSE SearchGroup(s, i + 1, prefix, cls)

\* re.search(a) or re.search(b)
FirstGroup(s, a, b, cls) ==
    IF SearchGroup(s, 1, a, cls) # <<>>
    THEN SearchGroup(s, 1, a, cls)
    ELSE SearchGroup(s, 1, b, cls)

\* the if / elif chain of main.py:148, 165, 180
ProviderOf(f) ==
    IF Contains(f, <<"m", "u", "s", "i", "c", ".", "1", "6", "3", ".", "c", "o", "m">>)
    THEN "netease"
    ELSE IF Contains(f, <<"y", ".", "q", "q", ".", "c", "o", "m">>) THEN "qq"
    ELSE IF Contains(f, <<"k", "u", "w", "o", ".", "c", "n">>) THEN "kuwo"
    ELSE "none"

\* main.py:149, 166, 181: the identifier, <<>> when no pattern matches
SongId(prov, f) ==
    CASE prov = "netease" ->
           FirstGroup(f, <<"i", "d", "=">>, <<"s", "o", "n", "g", "/">>, Digits)
      [] prov = "qq" ->
           FirstGroup(f, <<"s", "o", "n", "g", "m", "i", "d", "=">>,
                      <<"s", "o", "n", "g", "D", "e", "t", "a", "i", "l", "/">>,
                      AlphaNum)
      [] prov = "kuwo" ->
           FirstGroup(f, <<"m", "i", "d", "=">>,
                      <<"m", "u", "s", "i", "c", "I", "d", "=">>, Digits)
      [] OTHER -> <<>>

\* main.py:148-181 reading the argument instead of final_url
SelectionUrlOriginal(u, f) == u

\* The URL the provider branches and the patterns read (main.py:148-181):
\* final_url, not the argument
SelectionUrl(u, f) == f

\* main.py:159-162 without the return
DirectReturnsNever(p) == FALSE

\* `if lrc:` / `if lrc_list:` (main.py:159, 176, 189): the direct tier returns
DirectReturns(p) == p # <<>>

\* main.py:160-162
NetEaseResult(id, lrc, tlrc) ==
    <<"u3010", "u7F51", "u6613", "u4E91", "u89E3", "u6790", " ", "(", "I", "D",
      ":", " ">> \o id \o <<")", "u3011", "LF", "LF">> \o _filter_lyrics(lrc)
    \o (IF tlrc # <<>>
        THEN <<"LF", "LF", "u3010", "u7FFB", "u8BD1", "u3011", "LF">>
             \o _filter_lyrics(tlrc)
        ELSE <<>>)

\* main.py:176
QQResult(mid, lrc) ==
    <<"u3010", "Q", "Q", "u97F3", "u4E50", "u89E3", "u6790", " ", "(", "M", "I",
      "D", ":", " ">> \o mid \o <<")", "u3011", "LF", "LF">> \o _filter_lyrics(lrc)

\* main.py:190-191: the lines of lrclist joined, as received
KuwoResult(lrc_list) ==
    <<"u3010", "u9177", "u6211", "u97F3", "u4E50", "u89E3", "u6790", "u3011",
      "LF", "LF">> \o Join(lrc_list, <<"LF">>)

\* main.py:229
FallbackFound(kw, text) ==
    <<"u3010", "u6B4C", "u8BCD", "u89E3", "u6790", ":", " ">> \o kw
    \o <<"u3011", "LF", "u6765", "u6E90", ":", " ", "u5C0F", "u6C5F", "u97F3",
         "u4E50", "u7F51", "LF", "LF">> \o text

\* main.py:230
FallbackNotMatched(kw) ==
    <<"u8BC6", "u522B", "u5230", "u97F3", "u4E50", "u94FE", "u63A5", "uFF0C",
      "u4F46", "u5728", "u641C", "u7D22", "u300A">> \o kw
    \o <<"u300B", "u65F6", "u672A", "u80FD", "u5339", "u914D", "u5230", "u6B4C",
         "u8BCD", "u6B63", "u6587", "u3002">>

\* main.py:232
FallbackFailed ==
    <<"u97F3", "u4E50", "u94FE", "u63A5", "u89E3", "u6790", "u5931", "u8D25",
      "u3002">>

\* main.py:304
GenericError(e) ==
    <<"u7F51", "u9875", "u89E3", "u6790", "u51FA", "u9519", ":", " ">> \o e

\* main.py:231-232 without the handler
FallbackCatchesNothing == FALSE

\* `except Exception` of main.py:231-232 turns a failure of the title GET or
\* of the keyword steps into the failure message
FallbackCatches == TRUE

-----------------------------------------------------------------------------
(* What the network can answer *)

Https == <<"h", "t", "t", "p", "s", ":", "/", "/">>

\* https://music.163.com/song?id=12
U_NetEase ==
    Https \o <<"m", "u", "s", "i", "c", ".", "1", "6", "3", ".", "c", "o", "m",
               "/", "s", "o", "n", "g", "?", "i", "d", "=", "1", "2">>
\* https://music.163.com/song?id=34
U_NetEase2 ==
    Https \o <<"m", "u", "s", "i", "c", ".", "1", "6", "3", ".", "c", "o", "m",
               "/", "s", "o", "n", "g", "?", "i", "d", "=", "3", "4">>
\* https://163cn.tv/Ab
U_NetEaseShort == Https \o <<"1", "6", "3", "c", "n", ".", "t", "v", "/", "A", "b">>
\* https://y.qq.com/n/ryqq/songDetail/0a1B
U_QQ ==
    Https \o <<"y", ".", "q", "q", ".", "c", "o", "m", "/", "n", "/", "r", "y",
               "q", "q", "/", "s", "o", "n", "g", "D", "e", "t", "a", "i", "l",
               "/", "0", "a", "1", "B">>
\* https://t.kuwo.cn/x?mid=7
U_KuwoShort ==
    Https \o <<"t", ".", "k", "u", "w", "o", ".", "c", "n", "/", "x", "?", "m",
               "i", "d", "=", "7">>
\* https://m.kuwo.cn/newh5/singles/content?mid=5
U_Kuwo ==
    Https \o <<"m", ".", "k", "u", "w", "o", ".", "c", "n", "/", "n", "e", "w",
               "h", "5", "/", "s", "i", "n", "g", "l", "e", "s", "/", "c", "o",
               "n", "t", "e", "n", "t", "?", "m", "i", "d", "=", "5">>
\* https://www.kugou.com/song/9
U_Kugou ==
    Https \o <<"w", "w", "w", ".", "k", "u", "g", "o", "u", ".", "c", "o", "m",
               "/", "s", "o", "n", "g", "/", "9">>
\* https://www.zhihu.com/question/1
U_Zhihu ==
    Https \o <<"w", "w", "w", ".", "z", "h", "i", "h", "u", ".", "c", "o", "m",
               "/", "q", "u", "e", "s", "t", "i", "o", "n", "/", "1">>
\* https://example.com/a
U_Generic ==
    Https \o <<"e", "x", "a", "m", "p", "l", "e", ".", "c", "o", "m", "/", "a">>
\* https://MUSIC.163.COM/song?id=12
U_UpperHost ==
    Https \o <<"M", "U", "S", "I", "C", ".", "1", "6", "3", ".", "C", "O", "M",
               "/", "s", "o", "n", "g", "?", "i", "d", "=", "1", "2">>
\* https://www.bilibili.com/video?from=b23.tv
U_BiliShare ==
    Https \o <<"w", "w", "w", ".", "b", "i", "l", "i", "b", "i", "l", "i", ".",
               "c", "o", "m", "/", "v", "i", "d", "e", "o", "?", "f", "r", "o",
               "m", "=", "b", "2", "3", ".", "t", "v">>

CallUrls ==
    { U_NetEase, U_NetEaseShort, U_QQ, U_KuwoShort, U_Kuwo, U_Kugou, U_Zhihu,
      U_Generic, U_UpperHost, U_BiliShare }

\* str(resp.url) after the redirects of the HEAD request
RedirectTargets(u) == {u, U_NetEase2, U_QQ, U_Kuwo, U_Generic}

\* "[00:01.00]" U+4F60 U+597D U+4E16 U+754C / U+4F5C U+8BCD U+FF1A U+5F20 U+4E09
LRC1 ==
    <<"[", "0", "0", ":", "0", "1", ".", "0", "0", "]", "u4F60", "u597D",
      "u4E16", "u754C", "LF", "u4F5C", "u8BCD", "uFF1A", "u5F20", "u4E09">>
\* "[00:01.00]Hello world"
TLRC1 ==
    <<"[", "0", "0", ":", "0", "1", ".", "0", "0", "]", "H", "e", "l", "l", "o",
      " ", "w", "o", "r", "l", "d">>
\* lrclist: the lineLyric values of two entries
KuwoLines ==
    << <<"u4F5C", "u8BCD", "uFF1A", "u5F20", "u4E09">>,
       <<"u4F60", "u597D", "u4E16", "u754C">> >>

\* The answer of a provider's lyric endpoint as the code reads it: the
\* request or the read of the body raises ("fails"), json.loads or the reading
\* of the fields raises ("malformed"), or the fields are read ("parsed")
ApiResponses(prov) ==
    {[status |-> "fails", lrc |-> <<>>, tlrc |-> <<>>],
     [status |-> "malformed", lrc |-> <<>>, tlrc |-> <<>>]}
    \cup
    CASE prov = "netease" ->
           {[status |-> "parsed", lrc |-> l, tlrc |-> t] :
               l \in {<<>>, LRC1}, t \in {<<>>, TLRC1}}
      [] prov = "qq" ->
           {[status |-> "parsed", lrc |-> l, tlrc |-> <<>>] : l \in {<<>>, LRC1}}
      [] OTHER ->
           {[status |-> "parsed", lrc |-> l, tlrc |-> <<>>] :
               l \in {<<>>, KuwoLines}}

\* The text of a fetched page (soup.get_text)
PageTexts ==
    { <<>>,
      \* U+4F60 U+597D U+4E16 U+754C / (c) 2024 x / ab
      <<"u4F60", "u597D", "u4E16", "u754C", "LF", "u00A9", " ", "2", "0", "2",
        "4", " ", "x", "LF", "a", "b">>,
      \* "Hello world, this is the page"
      <<"H", "e", "l", "l", "o", " ", "w", "o", "r", "l", "d", ",", " ", "t",
        "h", "i", "s", " ", "i", "s", " ", "t", "h", "e", " ", "p", "a", "g",
        "e">> }

\* final_keyword (main.py:206-223): what the title of the page reduces to
Keywords ==
    { <<>>, <<"a", "b", "c">>, <<"u672A", "u77E5", "u6B4C", "u66F2">> }

\* str(e) of main.py:304
ErrorTexts == { <<>>, <<"t", "i", "m", "e", "o", "u", "t">> }

MaxCalls == 2

CallMaxLengths == {MaxMaxLength, MaxMaxLength + 5}

\* one answer of the network or of the browser to an awaited step
Answer(step, status, data) == [step |-> step, status |-> status, data |-> data]

ApiAnswer(resp) ==
    Answer("api", resp.status,
           IF resp.status = "parsed" THEN <<resp.lrc, resp.tlrc>> ELSE <<>>)

SearchAnswer(reached, t) ==
    Answer("search", IF reached THEN "ok" ELSE "fails",
           IF reached THEN <<t>> ELSE <<>>)

-----------------------------------------------------------------------------
(* One call of _fetch_url_content, step by step *)

Init ==
    /\ raw = <<>>
    /\ out1 = <<>>
    /\ out2 = <<>>
    /\ stage = "call"
    /\ max_length \in CallMaxLengths
    /\ HAS_PLAYWRIGHT \in BOOLEAN
    /\ CallIdle
    /\ HookIdle

\* main.py:281-288: the entry point is called and picks the branch
StartCall(u) ==
    /\ pc \in {"idle", "done"}
    /\ ncalls < MaxCalls
    /\ ncalls' = ncalls + 1
    /\ url' = u
    /\ final_url' = <<>>
    /\ provider' = "none"
    /\ song_id' = <<>>
    /\ payload' = None
    /\ fb_url' = None
    /\ keyword' = None
    /\ lyrics_found' = None
    /\ answers' = <<>>
    /\ events' = <<>>
    /\ html' = None
    /\ content' = None
    /\ screenshot' = None
    /\ raised' = FALSE
    /\ browser' = "none"
    /\ pc' = CASE SiteKind(u, HAS_PLAYWRIGHT) = "Music" -> "music"
               [] SiteKind(u, HAS_PLAYWRIGHT) = "SocialRendered" -> "render"
               [] OTHER -> "generic"
    /\ UNCHANGED <<pureVars, confVars, other, open_browsers>>

\* a call of the entry point outside on_llm_request (main.py:327)
FetchUrlContent(u) == StartCall(u) /\ UNCHANGED hookVars

\* main.py:136-141
MusicBegin ==
    /\ pc = "music"
    /\ final_url' = url
    /\ pc' = IF NeedsRedirect(url) THEN "head" ELSE "select"
    /\ UNCHANGED <<pureVars, confVars, hookVars, other, answers, url, provider, song_id, payload, fb_url,
                   keyword, events, html, content, screenshot, raised, browser,
                   open_browsers, ncalls, lyrics_found>>

\* main.py:143-145: the HEAD request answers
HeadOk ==
    /\ pc = "head"
    /\ \E f \in RedirectTargets(url) :
         /\ final_url' = f
         /\ answers' = Append(answers, Answer("head", "ok", <<f>>))
    /\ events' = Append(events, "head")
    /\ pc' = "select"
    /\ UNCHANGED <<pureVars, confVars, hookVars, other, url, provider, song_id, payload, fb_url,
                   keyword, html, content, screenshot, raised, browser,
                   open_browsers, ncalls, lyrics_found>>

\* main.py:143 with one more attempt of the HEAD request after a failure
HeadFailsRetries ==
    /\ pc = "head"
    /\ answers' = Append(answers, Answer("head", "fails", <<>>))
    /\ IF Len(answers) = 0
       THEN /\ events' = Append(events, "head")
            /\ pc' = "head"
            /\ fb_url' = fb_url
       ELSE /\ events' = events \o <<"head", "fallback">>
            /\ pc' = "fallback"
            /\ fb_url' = url
    /\ UNCHANGED <<pureVars, confVars, hookVars, other, url, final_url, provider, song_id,
                   payload, keyword, html, content, screenshot, raised, browser,
                   open_browsers, ncalls, lyrics_found>>

\* main.py:143, 196-198: the HEAD request raises
HeadFails ==
    /\ pc = "head"
    /\ events' = events \o <<"head", "fallback">>
    /\ fb_url' = url
    /\ pc' = "fallback"
    /\ answers' = Append(answers, Answer("head", "fails", <<>>))
    /\ UNCHANGED <<pureVars, confVars, hookVars, other, url, final_url, provider, song_id,
                   payload, keyword, html, content, screenshot, raised, browser,
                   open_browsers, ncalls, lyrics_found>>

\* main.py:148-150, 165-167, 180-182, 194
SelectProvider ==
    /\ pc = "select"
    /\ LET f == SelectionUrl(url, final_url)
           prov == ProviderOf(f)
           id == SongId(prov, f)
       IN  /\ provider' = prov
           /\ song_id' = id
           /\ IF prov # "none" /\ id # <<>>
              THEN /\ pc' = "api"
                   /\ events' = Append(events, "select")
                   /\ fb_url' = fb_url
              ELSE /\ pc' = "fallback"
                   /\ events' = events \o <<"select", "fallback">>
                   /\ fb_url' = final_url
    /\ UNCHANGED <<pureVars, confVars, hookVars, other, answers, url, final_url, payload, keyword, html,
                   content, screenshot, raised, browser, open_browsers, ncalls, lyrics_found>>

\* The text the direct tier returns for a payload (main.py:160-162, 176, 191)
DirectResult(prov, id, resp) ==
    CASE prov = "netease" -> NetEaseResult(id, resp.lrc, resp.tlrc)
      [] prov = "qq" -> QQResult(id, resp.lrc)
      [] OTHER -> KuwoResult(resp.lrc)

\* main.py:198 calling the fallback with final_url
FallbackArgAlwaysResolved(prov, resp, u, f) == f

\* The URL handed to the fallback when the direct tier ends without a return:
\* final_url when the branch ran to its end (main.py:194; for QQ also after
\* the inner `except: pass` of main.py:177), url when an exception reached
\* main.py:196-198
FallbackArg(prov, resp, u, f) ==
    IF resp.status = "parsed" \/ (resp.status = "malformed" /\ prov = "qq")
    THEN f
    ELSE u

\* main.py:154-162, 171-176, 185-191: the provider answers with a payload and
\* the resolver returns
ApiReturns ==
    /\ pc = "api"
    /\ \E resp \in ApiResponses(provider) :
         /\ resp.status = "parsed"
         /\ DirectReturns(resp.lrc)
         /\ payload' = resp.lrc
         /\ answers' = Append(answers, ApiAnswer(resp))
         /\ content' = DirectResult(provider, song_id, resp)
    /\ events' = Append(events, "api")
    /\ pc' = "done"
    /\ UNCHANGED <<pureVars, confVars, hookVars, other, url, final_url, provider, song_id,
                   fb_url, keyword, html, screenshot, raised, browser,
                   open_browsers, ncalls, lyrics_found>>

\* main.py:154-198: the request raises, the answer cannot be read, or it
\* holds no payload: the resolver goes on to the fallback
ApiFallsThrough ==
    /\ pc = "api"
    /\ \E resp \in ApiResponses(provider) :
         /\ ~(resp.status = "parsed" /\ DirectReturns(resp.lrc))
         /\ payload' = IF resp.status = "parsed" THEN resp.lrc ELSE None
         /\ fb_url' = FallbackArg(provider, resp, url, final_url)
         /\ answers' = Append(answers, ApiAnswer(resp))
    /\ events' = events \o <<"api", "fallback">>
    /\ pc' = "fallback"
    /\ UNCHANGED <<pureVars, confVars, hookVars, other, url, final_url, provider, song_id,
                   keyword, html, content, screenshot, raised, browser,
                   open_browsers, ncalls, lyrics_found>>

\* main.py:203-223: the title GET answers and the keyword is derived
TitleGetOk ==
    /\ pc = "fallback"
    /\ \E kw \in Keywords :
         /\ keyword' = kw
         /\ answers' = Append(answers, Answer("title_get", "ok", <<kw>>))
    /\ events' = Append(events, "title_get")
    /\ pc' = "search"
    /\ UNCHANGED <<pureVars, confVars, hookVars, other, url, final_url, provider, song_id,
                   payload, fb_url, html, content, screenshot, raised, browser,
                   open_browsers, ncalls, lyrics_found>>

\* main.py:204-206, 231-232: the title GET or the reading of the title raises
TitleGetFails ==
    /\ pc = "fallback"
    /\ events' = Append(events, "title_get")
    /\ IF FallbackCatches
       THEN content' = FallbackFailed /\ raised' = FALSE
       ELSE content' = content /\ raised' = TRUE
    /\ pc' = "done"
    /\ answers' = Append(answers, Answer("title_get", "fails", <<>>))
    /\ UNCHANGED <<pureVars, confVars, hookVars, other, url, final_url, provider, song_id,
                   payload, fb_url, keyword, html, screenshot, browser,
                   open_browsers, ncalls, lyrics_found>>

\* the text of the first result's page when _search_xiaojiang gets that far
\* (main.py:251-259)
LyricPages == PageTexts \cup {LRC1}

\* what _search_xiaojiang returns (main.py:239-261): None when the search
\* fails or lists nothing, else the filtered text of the first result's page
SearchResult(reached, t) == IF reached THEN _filter_lyrics(t) ELSE None

\* main.py:226-230
Search ==
    /\ pc = "search"
    /\ events' = Append(events, "search")
    /\ \E reached \in BOOLEAN, t \in LyricPages :
         LET res == SearchResult(reached, t) IN
         /\ lyrics_found' = res
         /\ answers' = Append(answers, SearchAnswer(reached, t))
         /\ content' = IF res # None /\ res # <<>>
                       THEN FallbackFound(keyword, res)
                       ELSE FallbackNotMatched(keyword)
    /\ pc' = "done"
    /\ UNCHANGED <<pureVars, confVars, hookVars, other, url, final_url, provider, song_id,
                   payload, fb_url, keyword, html, screenshot, raised, browser,
                   open_browsers, ncalls>>

\* main.py:302, 304 returning the screenshot variable of main.py:289
ScreenshotOfGenericKept(s) == s

\* main.py:302, 304: the generic fetch returns None as screenshot, whatever
\* the rendered page fetcher produced before
ScreenshotOfGeneric(s) == None

\* main.py:296-302: the GET answers
GenericGetOk ==
    /\ pc = "generic"
    /\ events' = Append(events, "get")
    /\ \E t \in PageTexts :
         /\ content' = _clean_text(t, max_length)
         /\ answers' = Append(answers, Answer("get", "ok", <<t>>))
    /\ screenshot' = ScreenshotOfGeneric(screenshot)
    /\ pc' = "done"
    /\ UNCHANGED <<pureVars, confVars, hookVars, other, url, final_url, provider, song_id,
                   payload, fb_url, keyword, html, raised, browser,
                   open_browsers, ncalls, lyrics_found>>

\* main.py:303-304 with a handler that also lowers self.max_length
GenericGetFailsWritesConfig ==
    /\ pc = "generic"
    /\ events' = Append(events, "get")
    /\ \E e \in ErrorTexts :
         /\ content' = GenericError(e)
         /\ answers' = Append(answers, Answer("get", "fails", <<e>>))
    /\ screenshot' = ScreenshotOfGeneric(screenshot)
    /\ pc' = "done"
    /\ max_length' = 0
    /\ UNCHANGED <<pureVars, HAS_PLAYWRIGHT, hookVars, other, url, final_url, provider,
                   song_id, payload, fb_url, keyword, html, raised, browser,
                   open_browsers, ncalls, lyrics_found>>

\* main.py:303-304: the GET raises
GenericGetFails ==
    /\ pc = "generic"
    /\ events' = Append(events, "get")
    /\ \E e \in ErrorTexts :
         /\ content' = GenericError(e)
         /\ answers' = Append(answers, Answer("get", "fails", <<e>>))
    /\ screenshot' = ScreenshotOfGeneric(screenshot)
    /\ pc' = "done"
    /\ UNCHANGED <<pureVars, confVars, hookVars, other, url, final_url, provider, song_id,
                   payload, fb_url, keyword, html, raised, browser,
                   open_browsers, ncalls, lyrics_found>>

-----------------------------------------------------------------------------
(* The rendered page fetcher: _get_screenshot_and_content (main.py:263-279)  *)
(* and its use by the entry point (main.py:288-294)                          *)

\* the awaited steps of main.py:268-275, in order
RenderSteps ==
    <<"launch", "new_context", "new_page", "goto", "page_content",
      "page_screenshot", "close">>

StepIndex(p) == CHOOSE k \in 1..Len(RenderSteps) : RenderSteps[k] = p

IsRenderStep(p) == \E k \in 1..Len(RenderSteps) : RenderSteps[k] = p

\* main.py:267 with the driver left running (no `async with`)
BrowserAfterStopLeaks(b) == b

\* The browser of the call once the `async with async_playwright()` block of
\* main.py:267 is left: the context manager stops the Playwright driver, and
\* the driver closes the browsers it launched
BrowserAfterStop(b) == IF b = "open" THEN "closed" ELSE b

\* main.py:277 with an `except` that matches no failure of the steps
RendererCatchesNothing == FALSE

\* main.py:277-279: `except Exception` takes every failure of the steps of
\* main.py:267-275 and (None, None) is returned
RendererCatches == TRUE

\* the serialisation of a page whose text is t: a body element around it
HtmlOf(t) == <<"<", "b", "o", "d", "y", ">">> \o t

\* main.py:291-293: soup.get_text of a serialised page
TextOf(h) == SubSeq(h, Len(HtmlOf(<<>>)) + 1, Len(h))

\* what page.content() gives (main.py:272): a serialised page, or an empty
\* string
Htmls == {HtmlOf(t) : t \in PageTexts} \cup {<<>>}

\* the number of browsers the change of one browser from b to b2 releases
Released(b, b2) == IF b = "open" /\ b2 # "open" THEN 1 ELSE 0

\* main.py:265-267: the Playwright driver starts
RenderEnterOk ==
    /\ pc = "render"
    /\ HAS_PLAYWRIGHT
    /\ events' = Append(events, "render")
    /\ pc' = RenderSteps[1]
    /\ answers' = Append(answers, Answer("render", "ok", <<>>))
    /\ UNCHANGED <<pureVars, confVars, hookVars, other, url, final_url, provider, song_id,
                   payload, fb_url, keyword, html, content, screenshot, raised,
                   browser, open_browsers, ncalls, lyrics_found>>

\* main.py:265 (no renderer) and main.py:267, 277-279 (the driver does not
\* start): (None, None) is returned and main.py:290 falls to the generic fetch
RenderEnterFails ==
    /\ pc = "render"
    /\ events' = Append(events, "render")
    /\ html' = None
    /\ screenshot' = None
    /\ IF RendererCatches
       THEN pc' = "generic" /\ raised' = FALSE
       ELSE pc' = "done" /\ raised' = TRUE
    /\ answers' = Append(answers, Answer("render", "fails", <<>>))
    /\ UNCHANGED <<pureVars, confVars, hookVars, other, url, final_url, provider, song_id,
                   payload, fb_url, keyword, content, browser,
                   open_browsers, ncalls, lyrics_found>>

\* main.py:268-276: one awaited step succeeds
RenderStepOk ==
    /\ IsRenderStep(pc)
    /\ browser' = CASE pc = "launch" -> "open"
                    [] pc = "close" -> "closed"
                    [] OTHER -> browser
    /\ open_browsers' = CASE pc = "launch" -> open_browsers + 1
                          [] pc = "close" -> open_browsers - 1
                          [] OTHER -> open_browsers
    /\ IF pc = "page_content"
       THEN \E h \in Htmls :
                /\ html' = h
                /\ answers' = Append(answers, Answer(pc, "ok", <<h>>))
       ELSE /\ html' = html
            /\ answers' = Append(answers, Answer(pc, "ok", <<>>))
    /\ screenshot' = IF pc = "page_screenshot" THEN "jpeg" ELSE screenshot
    /\ pc' = IF pc = "close" THEN "rendered" ELSE RenderSteps[StepIndex(pc) + 1]
    /\ UNCHANGED <<pureVars, confVars, hookVars, other, url, final_url, provider, song_id,
                   payload, fb_url, keyword, events, content, raised, ncalls,
                   lyrics_found>>

\* main.py:268-275, 277-279: one awaited step raises; the `async with` block
\* is left, (None, None) is returned and main.py:290 falls to the generic fetch
RenderStepFails ==
    /\ IsRenderStep(pc)
    /\ browser' = BrowserAfterStop(browser)
    /\ open_browsers' = open_browsers - Released(browser, BrowserAfterStop(browser))
    /\ html' = None
    /\ screenshot' = None
    /\ IF RendererCatches
       THEN pc' = "generic" /\ raised' = FALSE
       ELSE pc' = "done" /\ raised' = TRUE
    /\ answers' = Append(answers, Answer(pc, "fails", <<>>))
    /\ UNCHANGED <<pureVars, confVars, hookVars, other, url, final_url, provider, song_id,
                   payload, fb_url, keyword, events, content, ncalls,
                   lyrics_found>>

\* main.py:276 and 290-294: (content, screenshot) is returned through the end
\* of the `async with` block, the text of the html is cleaned and returned
RenderReturn ==
    /\ pc = "rendered"
    /\ html # <<>>
    /\ browser' = BrowserAfterStop(browser)
    /\ open_browsers' = open_browsers - Released(browser, BrowserAfterStop(browser))
    /\ content' = _clean_text(TextOf(html), max_length)
    /\ pc' = "done"
    /\ UNCHANGED <<pureVars, confVars, hookVars, other, answers, url, final_url, provider, song_id,
                   payload, fb_url, keyword, events, html, screenshot, raised,
                   ncalls, lyrics_found>>

\* main.py:276 and 290: (content, screenshot) is returned with an empty
\* content; `if html:` fails and the entry point goes on to the generic fetch
RenderReturnsEmpty ==
    /\ pc = "rendered"
    /\ html = <<>>
    /\ browser' = BrowserAfterStop(browser)
    /\ open_browsers' = open_browsers - Released(browser, BrowserAfterStop(browser))
    /\ pc' = "generic"
    /\ UNCHANGED <<pureVars, confVars, hookVars, other, answers, url, final_url, provider, song_id,
                   payload, fb_url, keyword, events, html, content, screenshot,
                   raised, ncalls, lyrics_found>>

Next ==
    \/ \E u \in CallUrls : FetchUrlContent(u)
    \/ MusicBegin
    \/ HeadOk
    \/ HeadFails
    \/ SelectProvider
    \/ ApiReturns
    \/ ApiFallsThrough
    \/ TitleGetOk
    \/ TitleGetFails
    \/ Search
    \/ RenderEnterOk
    \/ RenderEnterFails
    \/ RenderStepOk
    \/ RenderStepFails
    \/ RenderReturn
    \/ RenderReturnsEmpty
    \/ GenericGetOk
    \/ GenericGetFails

Spec == Init /\ [][Next]_vars

-----------------------------------------------------------------------------
(* Two calls of _fetch_url_content in flight on the one event loop: a        *)
(* coroutine runs until it awaits, and the loop may then run the other one.  *)
(* The variables pc .. answers are the locals of the running call, `other`   *)
(* holds those of the suspended one; self.max_length and HAS_PLAYWRIGHT,     *)
(* the only plugin state the calls read (main.py:33, 13-17), are shared.     *)

\* the locals of the running call
Frame ==
    [pc |-> pc, url |-> url, final_url |-> final_url, provider |-> provider,
     song_id |-> song_id, payload |-> payload, fb_url |-> fb_url,
     keyword |-> keyword, events |-> events, html |-> html,
     content |-> content, screenshot |-> screenshot, raised |-> raised,
     browser |-> browser, lyrics_found |-> lyrics_found, answers |-> answers]

\* where a call stands when it awaits (main.py:143, 154, 171, 185, 204, 241,
\* 251, 267-275, 299), has not started or has returned
AwaitPcs ==
    {"idle", "done", "head", "api", "fallback", "search", "generic", "render"}
    \cup {RenderSteps[k] : k \in 1..Len(RenderSteps)}

\* the event loop suspends the running call at an await and runs the other
Switch ==
    /\ pc \in AwaitPcs
    /\ other.pc # "idle" \/ pc # "idle"
    /\ other' = Frame
    /\ pc' = other.pc
    /\ url' = other.url
    /\ final_url' = other.final_url
    /\ provider' = other.provider
    /\ song_id' = other.song_id
    /\ payload' = other.payload
    /\ fb_url' = other.fb_url
    /\ keyword' = other.keyword
    /\ events' = other.events
    /\ html' = other.html
    /\ content' = other.content
    /\ screenshot' = other.screenshot
    /\ raised' = other.raised
    /\ browser' = other.browser
    /\ lyrics_found' = other.lyrics_found
    /\ answers' = other.answers
    /\ UNCHANGED <<pureVars, confVars, hookVars, open_browsers, ncalls>>

\* the URLs of the two calls in flight: a music short link, a social URL and
\* a generic URL
ConcurrentUrls == {U_KuwoShort, U_Zhihu, U_Generic}

\* Playwright is installed, so that the three branches of the entry point
\* are all taken
InitConcurrent ==
    /\ raw = <<>>
    /\ out1 = <<>>
    /\ out2 = <<>>
    /\ stage = "call"
    /\ max_length = MaxMaxLength
    /\ HAS_PLAYWRIGHT = TRUE
    /\ CallIdle
    /\ HookIdle

NextConcurrent ==
    \/ \E u \in ConcurrentUrls : FetchUrlContent(u)
    \/ MusicBegin
    \/ HeadOk
    \/ HeadFails
    \/ SelectProvider
    \/ ApiReturns
    \/ ApiFallsThrough
    \/ TitleGetOk
    \/ TitleGetFails
    \/ Search
    \/ RenderEnterOk
    \/ RenderEnterFails
    \/ RenderStepOk
    \/ RenderStepFails
    \/ RenderReturn
    \/ RenderReturnsEmpty
    \/ GenericGetOk
    \/ GenericGetFails
    \/ Switch

SpecConcurrent == InitConcurrent /\ [][NextConcurrent]_vars

-----------------------------------------------------------------------------
(* The request hook on_llm_request (main.py:306-320)                         *)

MaxUrlsInMessage == 2

\* the URLs a message can hold
HookUrls == {U_NetEase, U_KuwoShort, U_Zhihu, U_Generic}

\* what url_pattern.findall(event.message_str) can give (main.py:310)
FoundUrls == BoundedSeq(HookUrls, MaxUrlsInMessage)

\* the default prompt_template (main.py:36) with {content} replaced
PromptBlock(c) ==
    <<"LF", "u3010", "u4EE5", "u4E0B", "u662F", "u94FE", "u63A5", "u7684",
      "u5177", "u4F53", "u5185", "u5BB9", "uFF0C", "u8BF7", "u53C2",
      "u8003", "u8BE5", "u5185", "u5BB9", "u8FDB", "u884C", "u56DE",
      "u7B54", "u3011", "uFF1A", "LF">>
    \o c \o <<"LF">>

\* main.py:319; the base64 text of the screenshot is the one token b64
ScreenshotBlock(b64) ==
    <<"LF", "(", "u9644", "u5E26", "u9875", "u9762", "u622A", "u56FE", ")",
      "LF", "u56FE", "u7247", "uFF1A", "d", "a", "t", "a", ":", "i", "m",
      "a", "g", "e", "/", "j", "p", "e", "g", ";", "b", "a", "s", "e", "6",
      "4", ",">>
    \o <<b64>>

\* main.py:313 taking the last URL found
HookTargetLast(us) == us[Len(us)]

\* main.py:313: target_url = urls[0]
HookTarget(us) == us[1]

InitHook ==
    /\ raw = <<>>
    /\ out1 = <<>>
    /\ out2 = <<>>
    /\ stage = "call"
    /\ max_length \in CallMaxLengths
    /\ HAS_PLAYWRIGHT \in BOOLEAN
    /\ CallIdle
    /\ enable_plugin \in BOOLEAN
    /\ urls \in FoundUrls
    /\ prompt = BasePrompt
    /\ hpc = "idle"

\* main.py:309-311: the plugin is disabled or the message holds no URL
HookSkips ==
    /\ hpc = "idle"
    /\ ~enable_plugin \/ urls = <<>>
    /\ hpc' = "returned"
    /\ UNCHANGED <<pureVars, confVars, callVars, enable_plugin, urls, prompt>>

\* main.py:309-314: the first URL found is handed to _fetch_url_content
HookFetches ==
    /\ hpc = "idle"
    /\ enable_plugin /\ urls # <<>>
    /\ StartCall(HookTarget(urls))
    /\ hpc' = "fetching"
    /\ UNCHANGED <<enable_plugin, urls, prompt>>

\* main.py:314-320: the call has returned and the prompt is extended
HookInjects ==
    /\ hpc = "fetching"
    /\ pc = "done"
    /\ ~raised
    /\ prompt' =
           IF content # <<>>
           THEN prompt \o PromptBlock(content)
                \o (IF screenshot # None
                    THEN ScreenshotBlock(screenshot)
                    ELSE <<>>)
           ELSE prompt
    /\ hpc' = "returned"
    /\ UNCHANGED <<pureVars, confVars, callVars, enable_plugin, urls>>

NextHook ==
    \/ HookSkips
    \/ HookFetches
    \/ HookInjects
    \/ MusicBegin
    \/ HeadOk
    \/ HeadFails
    \/ SelectProvider
    \/ ApiReturns
    \/ ApiFallsThrough
    \/ TitleGetOk
    \/ TitleGetFails
    \/ Search
    \/ RenderEnterOk
    \/ RenderEnterFails
    \/ RenderStepOk
    \/ RenderStepFails
    \/ RenderReturn
    \/ RenderReturnsEmpty
    \/ GenericGetOk
    \/ GenericGetFails

SpecHook == InitHook /\ [][NextHook]_vars

-----------------------------------------------------------------------------
(* Claims about the pure functions *)

\* the host of u, lower-cased, is a music domain or a subdomain of one
HostIsMusicDomain(u) ==
    LET h == Lower(Netloc(u)) IN
    \E d \in music_domains :
        \/ h = d
        \/ /\ Len(h) > Len(d)
           /\ SubSeq(h, Len(h) - Len(d), Len(h)) = <<".">> \o d

\* C5: every URL whose host is a music domain is classified Music, whatever
\* its path, its query and the letter case of its host.
C5_MusicHostAnyCase ==
    (stage = "once" /\ HostIsMusicDomain(raw)) => out1 = "Music"

\* C8: _filter_lyrics is idempotent: the second application returns what the
\* first returned.
C8_FilterIdempotent == stage = "twice" => out2 = out1

\* C9 as stated: the example of spec.md section 8 is reduced to the single
\* line U+4F60 U+597D.
C9_ExampleOnlyFirstLine ==
    (stage # "in" /\ raw = LyricExample) => out1 = <<"u4F60", "u597D">>

\* C9 as amended: the timestamp is stripped and the credit line is dropped,
\* and the line "Hello" is kept: the result is the two lines U+4F60 U+597D
\* and "Hello".
C9_ExampleKeepsLatinLine ==
    (stage # "in" /\ raw = LyricExample) =>
        out1 = <<"u4F60", "u597D", "LF", "H", "e", "l", "l", "o">>

C9_Witness == stage = "once" /\ raw = LyricExample

EndsWith(s, suffix) ==
    /\ Len(s) >= Len(suffix)
    /\ SubSeq(s, Len(s) - Len(suffix) + 1, Len(s)) = suffix

\* the lines of text that survive _clean_text's filter, stated from the
\* claim: stripped, at least 2 characters, no blacklist keyword
SurvivingLines(text) ==
    LET lines == Split(text, "LF")
        ok(k) == /\ Len(Strip(lines[k])) >= 2
                 /\ \A kw \in blacklist : ~Contains(Strip(lines[k]), kw)
    IN  {k \in 1..Len(lines) : ok(k)}

\* the length of the surviving lines joined with line feeds
RECURSIVE SumLen(_, _)
SumLen(text, ks) ==
    IF ks = {} THEN 0
    ELSE LET k == CHOOSE x \in ks : TRUE IN
         Len(Strip(Split(text, "LF")[k])) + SumLen(text, ks \ {k})

JoinedLen(text) ==
    LET ks == SurvivingLines(text) IN
    IF ks = {} THEN 0 ELSE SumLen(text, ks) + Cardinality(ks) - 1

\* C10: _clean_text returns at most max_length + len(marker) characters, and
\* the result ends with the truncation marker exactly when the joined text
\* was longer than max_length.
C10_CleanTextBounded ==
    stage = "once" =>
        /\ Len(out1) <= max_length + Len(TruncationMarker)
        /\ EndsWith(out1, TruncationMarker) <=> JoinedLen(raw) > max_length

C10_Witness ==
    /\ stage = "once"
    /\ JoinedLen(raw) > max_length
    /\ max_length > 0
    /\ Len(out1) = max_length + Len(TruncationMarker)

-----------------------------------------------------------------------------
(* Claims about one call of the entry point *)

Count(e, evs) == Cardinality({k \in 1..Len(evs) : evs[k] = e})

\* the position of the first e in evs, 0 when there is none
Position(e, evs) ==
    IF Count(e, evs) = 0 THEN 0
    ELSE CHOOSE k \in 1..Len(evs) :
             evs[k] = e /\ \A j \in 1..(k - 1) : evs[j] # e

MusicPcs == {"music", "head", "select", "api", "fallback", "search"}

\* the call went through the music resolver
MusicCall == Count("head", events) + Count("select", events) >= 1

GotPayload == payload # None /\ payload # <<>>

\* C1: once the direct tier holds a non-empty lyric payload, the keyword
\* fallback is not invoked in that call: no fallback, title GET or search.
C1_NoFallbackAfterPayload ==
    GotPayload =>
        /\ Count("fallback", events) = 0
        /\ Count("title_get", events) = 0
        /\ Count("search", events) = 0

C1_Witness ==
    /\ pc = "done"
    /\ GotPayload
    /\ Count("api", events) = 1
    /\ content # None

IsText(x) == x # None /\ DOMAIN x = 1..Len(x)

MusicStep ==
    MusicBegin \/ HeadOk \/ HeadFails \/ SelectProvider \/ ApiFallsThrough
    \/ ApiReturns \/ TitleGetOk \/ TitleGetFails \/ Search

AllTiersFailed ==
    /\ ~GotPayload
    /\ lyrics_found = None \/ lyrics_found = <<>>

IsFailureMessage(x) ==
    \/ x = FallbackFailed
    \/ keyword # None /\ x = FallbackNotMatched(keyword)

\* C2: whatever the network steps answer, the music resolver goes on to a
\* return: no exception leaves it, a step is always possible until it has
\* returned, what it returns is a text, and when every tier failed that text
\* is one of the two failure messages.
C2_MusicAlwaysReturnsText ==
    /\ ~raised
    /\ pc \in MusicPcs => ENABLED MusicStep
    /\ (pc = "done" /\ MusicCall) => IsText(content)
    /\ (pc = "done" /\ MusicCall /\ AllTiersFailed) => IsFailureMessage(content)

C2_Witness ==
    /\ pc = "done"
    /\ Count("head", events) = 1
    /\ Count("api", events) = 1
    /\ Count("title_get", events) = 1
    /\ Count("search", events) = 0
    /\ content = FallbackFailed

\* C3: on every path of the entry point the returned text has at most
\* max_length + len(marker) characters.
C3_ContentBounded ==
    pc = "done" => Len(content) <= max_length + Len(TruncationMarker)

\* C4: a URL of the music set goes to the music resolver, and neither the
\* renderer nor the generic fetcher runs for it; the renderer runs only for a
\* non-music URL on a social host with the renderer available, and does run
\* for it; every other URL is served by the generic fetcher alone.
C4_RoutingPrecedence ==
    pc # "idle" =>
        LET music == _is_music_site(url)
            social == IsSocialHost(url)
            rendered == Count("render", events) >= 1
            fetched == Count("get", events) >= 1
        IN  /\ music => /\ ~rendered /\ ~fetched
                        /\ pc \in MusicPcs \cup {"done"}
                        /\ pc = "done" => MusicCall
            /\ rendered => ~music /\ social /\ HAS_PLAYWRIGHT
            /\ (~music /\ social /\ HAS_PLAYWRIGHT) =>
                   /\ ~MusicCall
                   /\ pc = "render" \/ rendered
            /\ (~music /\ ~(social /\ HAS_PLAYWRIGHT)) =>
                   /\ ~rendered /\ ~MusicCall
                   /\ pc \in {"generic", "done"}
                   /\ pc = "done" => fetched

\* a URL that is both in the music set and on a social host, renderer present
C4_Witness ==
    /\ pc = "done"
    /\ HAS_PLAYWRIGHT
    /\ _is_music_site(url) /\ IsSocialHost(url)
    /\ MusicCall
    /\ Count("render", events) = 0

C7_ResolvedUrlDecides ==
    (Count("head", events) = 1 /\ Count("select", events) = 1
     /\ final_url # url) =>
        /\ Position("head", events) < Position("select", events)
        /\ provider = ProviderOf(final_url)
        /\ song_id = SongId(provider, final_url)
        /\ (url = U_KuwoShort /\ final_url = U_Kuwo) =>
               provider = "kuwo" /\ song_id = <<"5">>
        /\ (url = U_KuwoShort /\ final_url = U_QQ) =>
               provider = "qq" /\ song_id = <<"0", "a", "1", "B">>

C7_Witness ==
    /\ pc = "done"
    /\ url = U_KuwoShort
    /\ final_url = U_Kuwo
    /\ provider = "kuwo"
    /\ song_id = <<"5">>
    /\ Position("head", events) = 1

-----------------------------------------------------------------------------
(* Claims about the rendered page fetcher and the screenshot *)

GenericStep == GenericGetFails \/ GenericGetOk

\* the rendered page fetcher was entered and returned (None, None)
RendererFailed ==
    /\ Count("render", events) = 1
    /\ html = None
    /\ pc \in {"generic", "done"}

\* C11: when a step of the rendered page fetcher fails, no exception leaves
\* it, html and screenshot are both None, the entry point goes on to the
\* generic fetch of the same call, and the call returns a text with no
\* screenshot.
C11_RenderFailureFallsThrough ==
    RendererFailed =>
        /\ ~raised
        /\ screenshot = None
        /\ pc = "generic" => ENABLED GenericStep
        /\ pc = "done" =>
               /\ Count("get", events) = 1
               /\ Position("render", events) < Position("get", events)
               /\ IsText(content)

\* a step failed after the browser was launched and the generic fetch served
\* the call
C11_Witness ==
    /\ pc = "done"
    /\ RendererFailed
    /\ browser = "closed"
    /\ Count("get", events) = 1
    /\ content # None
    /\ screenshot = None

\* what the generic fetcher can return as text (main.py:302, 304)
GenericTexts ==
    {_clean_text(t, max_length) : t \in PageTexts}
    \cup {GenericError(e) : e \in ErrorTexts}

\* C12: a returned screenshot comes from the rendered page fetcher, on a
\* social non-music URL, with a non-empty html; a music URL and a URL that is
\* neither music nor social return no screenshot; and the latter is served
\* by one generic GET alone, its text being the cleaned page text (or the
\* error text of that GET), with no step of the music resolver or of the
\* renderer.
C12_ScreenshotOnlyFromRenderer ==
    pc = "done" =>
        LET music == _is_music_site(url)
            social == IsSocialHost(url)
        IN  /\ screenshot # None =>
                   /\ ~music /\ social /\ HAS_PLAYWRIGHT
                   /\ Count("render", events) = 1
                   /\ Count("get", events) = 0
                   /\ html # None /\ html # <<>>
                   /\ content = _clean_text(TextOf(html), max_length)
            /\ music => screenshot = None
            /\ (~music /\ ~social) =>
                   /\ screenshot = None
                   /\ events = <<"get">>
                   /\ ~MusicCall
                   /\ browser = "none"
                   /\ content \in GenericTexts

\* a generic URL served by the generic fetcher
C12_Witness ==
    /\ pc = "done"
    /\ url = U_Generic
    /\ events = <<"get">>
    /\ content \in GenericTexts
    /\ content # <<>>
    /\ screenshot = None

\* a rendered social URL returned with its screenshot
C12_WitnessRendered ==
    /\ pc = "done"
    /\ url = U_Zhihu
    /\ screenshot = "jpeg"
    /\ html # <<>>

-----------------------------------------------------------------------------
(* Claims about calls in flight together *)

\* the two calls have returned, were given the same URL and received the same
\* answers
SameInputs ==
    /\ pc = "done"
    /\ other.pc = "done"
    /\ url = other.url
    /\ answers = other.answers

SameResult ==
    /\ content = other.content
    /\ screenshot = other.screenshot
    /\ raised = other.raised

\* C13: under every interleaving of two calls, no step of a call writes the
\* configuration, and two calls given the same URL that receive the same
\* answers return the same result, whatever the other call did in between
\* (its failures included).
C13_CallsIndependent ==
    /\ [](SameInputs => SameResult)
    /\ [][/\ max_length' = max_length
          /\ HAS_PLAYWRIGHT' = HAS_PLAYWRIGHT
          /\ enable_plugin' = enable_plugin]_vars

\* two calls of the same social URL, both returned after the same answers,
\* the renderer having failed in both
C13_Witness ==
    /\ SameInputs
    /\ url = U_Zhihu
    /\ Count("render", events) = 1
    /\ html = None
    /\ content # None
    /\ SameResult

-----------------------------------------------------------------------------
(* Claims about the classifier's inputs *)

\* u without its path, query and fragment
HostOnly(u) ==
    LET p == Find(u, 1, <<":", "/", "/">>) IN
    IF p = 0 THEN u
    ELSE SubSeq(u, 1, FirstOf(u, p + 3, {"/", "?", "#"}) - 1)

\* C14: the class of a URL is the class of its scheme and host alone: a path
\* or a query changes nothing, and a non-music host with a music domain in
\* its query is not Music.
C14_HostAloneDecides ==
    stage = "once" => out1 = SiteKind(HostOnly(raw), HAS_PLAYWRIGHT)

-----------------------------------------------------------------------------
(* Claims about the tiers of the music resolver *)

\* the step named st was answered with a failure
Failed(st) ==
    \E k \in 1..Len(answers) :
        answers[k].step = st /\ answers[k].status = "fails"

\* C15: when the HEAD request of a short link fails, the resolver still
\* selects a provider from the original URL before it invokes the keyword
\* fallback: the failure alone does not skip the direct tier.
C15_HeadFailureKeepsDirectTier ==
    (Failed("head") /\ Count("fallback", events) >= 1) =>
        /\ Count("select", events) = 1
        /\ Position("select", events) < Position("fallback", events)

\* the steps of the music resolver in the order of the code
TierOrder == <<"head", "select", "api", "fallback", "title_get", "search">>

\* C16: in one call each step of the music resolver happens at most once
\* (one HEAD request, one provider selection and one lyric call, one
\* invocation of the keyword fallback with one title GET, one search), and
\* those that happen do so in the order of the tiers; nothing is retried.
C16_TiersOnceInOrder ==
    /\ \A k \in 1..Len(TierOrder) : Count(TierOrder[k], events) <= 1
    /\ \A i \in 1..Len(TierOrder), j \in 1..Len(TierOrder) :
           (i < j /\ Count(TierOrder[i], events) = 1
                  /\ Count(TierOrder[j], events) = 1) =>
               Position(TierOrder[i], events) < Position(TierOrder[j], events)
    /\ Count("api", events) = 1 => provider \in {"netease", "qq", "kuwo"}

\* every tier ran once, the lyric call having failed
C16_Witness ==
    /\ pc = "done"
    /\ events = TierOrder
    /\ Failed("api")
    /\ lyrics_found = None

\* the last answer the call received
LastAnswer == answers[Len(answers)]

\* C17: a returned result that embeds lyrics embeds them filtered: the text
\* after the header is _filter_lyrics of the payload for NetEase (primary and
\* translated track), QQ and Kuwo, and of the page text for the search.
C17_ResultsAreFiltered ==
    pc = "done" =>
        /\ (GotPayload /\ provider = "netease") =>
               content = NetEaseResult(song_id, <<>>, <<>>)
                         \o _filter_lyrics(payload)
                         \o (IF LastAnswer.data[2] # <<>>
                             THEN <<"LF", "LF", "u3010", "u7FFB", "u8BD1",
                                    "u3011", "LF">>
                                  \o _filter_lyrics(LastAnswer.data[2])
                             ELSE <<>>)
        /\ (GotPayload /\ provider = "qq") =>
               content = QQResult(song_id, <<>>) \o _filter_lyrics(payload)
        /\ (GotPayload /\ provider = "kuwo") =>
               content = KuwoResult(<<>>)
                         \o _filter_lyrics(Join(payload, <<"LF">>))
        /\ (lyrics_found # None /\ lyrics_found # <<>>) =>
               content = FallbackFound(keyword,
                                       _filter_lyrics(LastAnswer.data[1]))

-----------------------------------------------------------------------------
(* Claims about the lines _clean_text keeps *)

\* the lines the claim names, in the order of the input: stripped, at least
\* 2 characters, no blacklist keyword
RECURSIVE ExpectedLinesFrom(_, _)
ExpectedLinesFrom(text, k) ==
    IF k > Len(Split(text, "LF")) THEN <<>>
    ELSE (IF k \in SurvivingLines(text)
          THEN <<Strip(Split(text, "LF")[k])>>
          ELSE <<>>)
         \o ExpectedLinesFrom(text, k + 1)

ExpectedClean(text) == Join(ExpectedLinesFrom(text, 1), <<"LF">>)

\* "ab" / "cd" / "ef"
CleanExampleKept ==
    <<"a", "b", "LF", "c", "d", "LF", "e", "f">>

\* C18: up to the cut at max_length, _clean_text returns the stripped lines
\* of at least 2 characters without blacklist keyword, in their order,
\* joined by line feeds; of the example "ab" / ICP line / "cd" / "x" /
\* "  ef  " it keeps "ab", "cd" and "ef" unchanged.
C18_CleanKeepsExactlyTheLines ==
    stage = "once" =>
        /\ Len(ExpectedClean(raw)) <= max_length => out1 = ExpectedClean(raw)
        /\ Len(ExpectedClean(raw)) > max_length =>
               SubSeq(out1, 1, max_length)
                   = SubSeq(ExpectedClean(raw), 1, max_length)
        /\ (raw = CleanExample /\ max_length = DefaultMaxLength) =>
               out1 = CleanExampleKept

C18_Witness ==
    /\ stage = "once"
    /\ raw = CleanExample
    /\ max_length = DefaultMaxLength
    /\ out1 = CleanExampleKept

-----------------------------------------------------------------------------
(* Claims about the URL of the keyword fallback *)

\* how the provider's lyric call was answered, "none" when it was not made
ApiStatus ==
    IF \E k \in 1..Len(answers) : answers[k].step = "api"
    THEN answers[CHOOSE k \in 1..Len(answers) : answers[k].step = "api"].status
    ELSE "none"

\* C19 as stated: the fallback is invoked with the original URL when the
\* HEAD request, the provider call or the parsing of its response raised,
\* and with the resolved URL otherwise.
C19_FallbackUrlByOutcome ==
    fb_url # None =>
        IF Failed("head") \/ ApiStatus \in {"fails", "malformed"}
        THEN fb_url = url
        ELSE fb_url = final_url

\* C19 as amended: as above, except that a QQ response that cannot be parsed
\* raises nothing out of its branch, and the fallback is then invoked with
\* the resolved URL.
C19_FallbackUrlQQParseSwallowed ==
    fb_url # None =>
        IF \/ Failed("head")
           \/ ApiStatus = "fails"
           \/ ApiStatus = "malformed" /\ provider # "qq"
        THEN fb_url = url
        ELSE fb_url = final_url

\* a short link resolved to a QQ URL whose lyric response could not be parsed
C19_Witness ==
    /\ pc = "fallback"
    /\ final_url # url
    /\ provider = "qq"
    /\ ApiStatus = "malformed"
    /\ fb_url = final_url

-----------------------------------------------------------------------------
(* Claims about on_llm_request *)

IsPrefix(a, b) == Len(a) <= Len(b) /\ SubSeq(b, 1, Len(a)) = a

\* C20: a disabled plugin or a message without URL leaves the prompt as it
\* was and starts no call; otherwise exactly one call is made, for the first
\* URL found; the prompt only ever grows at its end, and only once the call
\* returned a non-empty text: the text block, then the screenshot block when
\* there is a screenshot.
C20_HookOnlyAppends ==
    /\ IsPrefix(BasePrompt, prompt)
    /\ (~enable_plugin \/ urls = <<>>) => (prompt = BasePrompt /\ ncalls = 0)
    /\ ncalls <= 1
    /\ ncalls = 1 => url = urls[1]
    /\ hpc # "returned" => prompt = BasePrompt
    /\ (hpc = "returned" /\ enable_plugin /\ urls # <<>>) =>
           /\ ncalls = 1
           /\ pc = "done"
           /\ content = <<>> => prompt = BasePrompt
           /\ (content # <<>> /\ screenshot = None) =>
                  prompt = BasePrompt \o PromptBlock(content)
           /\ (content # <<>> /\ screenshot # None) =>
                  prompt = BasePrompt \o PromptBlock(content)
                           \o ScreenshotBlock(screenshot)

\* a message with two different URLs, the first rendered with a screenshot
C20_Witness ==
    /\ hpc = "returned"
    /\ Len(urls) = 2
    /\ urls[1] = U_Zhihu
    /\ urls[2] = U_Generic
    /\ screenshot # None
    /\ content # <<>>
    /\ prompt = BasePrompt \o PromptBlock(content) \o ScreenshotBlock(screenshot)

====
